---- MODULE Spec2Model ----
(***************************************************************************)
(* Model of modules/experiment/template.py: Template.run dispatches one    *)
(* run_once per simulation on a thread pool; each run_once runs its rounds *)
(* sequentially, every round on an inner pool of agent answer tasks, and   *)
(* finally folds the agents' memories into the shared record under a lock. *)
(***************************************************************************)
EXTENDS Integers, Sequences, FiniteSets

\* args.n_exp, args.rounds and the length of the list generate_agents returns.
NumExp == 2
NumRounds == 5
NumAgents == 2

\* "len(agents) if round < 4 else 1"
ParallelRounds == 4

Sims == 0 .. (NumExp - 1)
AgentIds == 0 .. (NumAgents - 1)
NoOne == -1

VARIABLES
  n_experiment,  \* self.__n_experiment
  opc,           \* position of run()
  submitted,     \* number of run_once tasks handed to the outer executor
  examined,      \* simulation futures already yielded by as_completed in run()
  reports,       \* the lines printed by run()
  progress,      \* tqdm counter n
  postCount,     \* number of exp_postprocess invocations
  runFault,      \* the exception raised inside run()'s try block, if any
  lock,          \* owner of self.__lock, NoOne when free
  record,        \* self.__record, as the sequence of writes made to it
  pc,            \* position of each run_once
  agents,        \* len(agents) of each simulation
  round,         \* loop variable "round" of each run_once
  sub,           \* agent_ind: next agent to be given a question
  task,          \* state of the agent futures of the current inner pool
  collected,     \* agent futures in the order as_completed yielded them
  results,       \* results: the queue.Queue in put order, then the sorted list
  faults,        \* which calls raised in each simulation, agent tasks aside
  snapshots,     \* number of times the get_memories list was begun
  updates,       \* number of update_record invocations
  nCollected,    \* rounds whose futures were all collected
  rpCalls        \* number of round_postprocess invocations

ovars == <<n_experiment, opc, submitted, examined, reports, postCount,
           runFault>>
svars == <<pc, agents, round, sub, task, collected, results, faults,
           snapshots, updates, nCollected, rpCalls>>
vars == <<ovars, progress, lock, record, svars>>

----------------------------------------------------------------------------
\* Helpers

Upd(f, s, v) == [f EXCEPT ![s] = v]

AgentsOf(s) == 0 .. (agents[s] - 1)

\* Variant: the pool is joined with a timeout, a task that hangs is given up.
InFlightUnlessHung(s) == {i \in AgentIds : task[s][i] \in {"queued", "running"}}

\* Futures not finished: pending, running, or running in a call that never ends.
InFlight(s) == {i \in AgentIds : task[s][i] \in {"queued", "running", "hung"}}
Running(s) == {i \in AgentIds : task[s][i] \in {"running", "hung"}}
Hung(s) == {i \in AgentIds : task[s][i] = "hung"}
Done(s) == {i \in AgentIds : task[s][i] \in {"ok", "err"}}
Yielded(s) == {collected[s][k] : k \in 1 .. Len(collected[s])}

\* Variant: every round runs on a pool as wide as the agent list.
WidthAll(n, r) == n

\* Variant: the width is never below one (max(1, len(agents))).
WidthAtLeastOne(n, r) == IF r < ParallelRounds /\ n > 0 THEN n ELSE 1

\* n_thread = len(agents) if round < 4 else 1
Width(n, r) == IF r < ParallelRounds THEN n ELSE 1

\* sorted(results, key=lambda x: x[0]): a stable sort on the first component.
RECURSIVE InsertByKey(_, _)
InsertByKey(x, sq) ==
  IF sq = <<>> THEN <<x>>
  ELSE IF x[1] < Head(sq)[1] THEN <<x>> \o sq
       ELSE <<Head(sq)>> \o InsertByKey(x, Tail(sq))

\* Variant: the results are handed on in queue order.
Unsorted(sq) == sq

RECURSIVE Sorted(_)
Sorted(sq) ==
  IF sq = <<>> THEN <<>>
  ELSE InsertByKey(sq[Len(sq)], Sorted(SubSeq(sq, 1, Len(sq) - 1)))

Terminal(s) == pc[s] \in {"returned", "raised"}

----------------------------------------------------------------------------
Init ==
  /\ n_experiment \in {0, NumExp}
  /\ opc = "executor"
  /\ submitted = 0
  /\ examined = {}
  /\ reports = <<>>
  /\ progress = 0
  /\ postCount = 0
  /\ runFault = "none"
  /\ lock = NoOne
  /\ record = <<>>
  /\ pc = [s \in Sims |-> "unsubmitted"]
  /\ agents = [s \in Sims |-> 0]
  /\ round = [s \in Sims |-> 0]
  /\ sub = [s \in Sims |-> 0]
  /\ task = [s \in Sims |-> [i \in AgentIds |-> "none"]]
  /\ collected = [s \in Sims |-> <<>>]
  /\ results = [s \in Sims |-> <<>>]
  /\ faults = [s \in Sims |-> {}]
  /\ snapshots = [s \in Sims |-> 0]
  /\ updates = [s \in Sims |-> 0]
  /\ nCollected = [s \in Sims |-> 0]
  /\ rpCalls = [s \in Sims |-> 0]

----------------------------------------------------------------------------
\* Template.run

\* ThreadPoolExecutor(max_workers=self.__n_experiment): ValueError when it is 0.
MakeExecutor ==
  /\ opc = "executor"
  /\ opc' = IF n_experiment <= 0 THEN "except" ELSE "tqdm"
  /\ runFault' = IF n_experiment <= 0 THEN "ValueError" ELSE runFault
  /\ UNCHANGED <<n_experiment, submitted, examined, reports, postCount,
                 progress, lock, record, svars>>

\* progress = tqdm(total=...)
MakeProgress ==
  /\ opc = "tqdm"
  /\ opc' = "dispatch"
  /\ UNCHANGED <<n_experiment, submitted, examined, reports, postCount,
                 runFault, progress, lock, record, svars>>

\* tqdm(...) raises: the with block is left, nothing was submitted.
MakeProgressRaises ==
  /\ opc = "tqdm"
  /\ opc' = "shutdown_exc"
  /\ runFault' = "tqdm"
  /\ UNCHANGED <<n_experiment, submitted, examined, reports, postCount,
                 progress, lock, record, svars>>

\* executor.submit(self.run_once, sim_ind, progress), sim_ind in range order.
SubmitSim ==
  /\ opc = "dispatch"
  /\ submitted < n_experiment
  /\ pc' = Upd(pc, submitted, "generate_agents")
  /\ submitted' = submitted + 1
  /\ UNCHANGED <<n_experiment, opc, examined, reports, postCount,
                 runFault, progress, lock, record, agents, round, sub, task, collected, results, faults, snapshots, updates, nCollected, rpCalls>>

\* executor.submit raises (no thread can be started): the with block is left
\* with the simulations submitted so far still running.
SubmitSimRaises ==
  /\ opc = "dispatch"
  /\ submitted < n_experiment
  /\ opc' = "shutdown_exc"
  /\ runFault' = "submit"
  /\ UNCHANGED <<n_experiment, submitted, examined, reports, postCount,
                 progress, lock, record, svars>>

\* the set comprehension is complete: enter the as_completed loop.
DispatchDone ==
  /\ opc = "dispatch"
  /\ submitted = n_experiment
  /\ opc' = "wait"
  /\ UNCHANGED <<n_experiment, submitted, examined, reports, postCount,
                 runFault, progress, lock, record, svars>>

\* The exception a failed run_once future carries: the call that raised
\* outside the try block or inside the finally block.
ExceptionOf(s) == faults[s] \cap {"generate_agents", "get_memories", "update_record"}

\* as_completed yields a finished future; its exception, if any, is printed.
ExamineFuture(s) ==
  /\ opc = "wait"
  /\ s < submitted
  /\ s \notin examined
  /\ Terminal(s)
  /\ examined' = examined \cup {s}
  /\ reports' = IF pc[s] = "raised"
                  THEN Append(reports, <<"A thread raised an exception", ExceptionOf(s)>>)
                  ELSE reports
  /\ UNCHANGED <<n_experiment, opc, submitted, postCount,
                 runFault, progress, lock, record, svars>>

\* as_completed is exhausted; progress.close().
CloseProgress ==
  /\ opc = "wait"
  /\ examined = 0 .. (submitted - 1)
  /\ opc' = "shutdown"
  /\ UNCHANGED <<n_experiment, submitted, examined, reports, postCount,
                 runFault, progress, lock, record, svars>>

\* Variant: shutdown(wait=False).
ExecutorNotJoined == TRUE

\* ThreadPoolExecutor.__exit__: shutdown(wait=True) joins the worker threads.
ExecutorJoined == \A s \in Sims : s < submitted => Terminal(s)

ShutdownExecutor ==
  /\ opc \in {"shutdown", "shutdown_exc"}
  /\ ExecutorJoined
  /\ opc' = IF opc = "shutdown" THEN "finally" ELSE "except"
  /\ UNCHANGED <<n_experiment, submitted, examined, reports, postCount,
                 runFault, progress, lock, record, svars>>

\* Variant: "except Exception: pass", the fault is swallowed without a report.
CatchInRunSilently ==
  /\ opc = "except"
  /\ opc' = "finally"
  /\ UNCHANGED <<n_experiment, submitted, examined, reports, postCount,
                 runFault, progress, lock, record, svars>>

\* except Exception as e: print(f"An exception occurred: {e}")
CatchInRun ==
  /\ opc = "except"
  /\ opc' = "finally"
  /\ reports' = Append(reports, <<"An exception occurred", runFault>>)
  /\ UNCHANGED <<n_experiment, submitted, examined, postCount,
                 runFault, progress, lock, record, svars>>

\* finally: self.exp_postprocess()
ExpPostprocess ==
  /\ opc = "finally"
  /\ postCount' = postCount + 1
  /\ opc' = "done"
  /\ UNCHANGED <<n_experiment, submitted, examined, reports,
                 runFault, progress, lock, record, svars>>

----------------------------------------------------------------------------
\* Template.run_once

\* The futures of a round and its results are not read again once the round
\* is over; a task that has not finished is still a running thread.
DropFinished(t) ==
  [i \in AgentIds |-> IF t[i] \in {"queued", "running", "hung"} THEN t[i] ELSE "none"]

\* Variant: an outer executor with one worker thread fewer than simulations.
MaxWorkersOne == n_experiment - 1

\* ThreadPoolExecutor(max_workers=self.__n_experiment)
MaxWorkers == n_experiment

\* A worker of the outer executor takes the run_once work items in submission
\* order; a worker is busy from the start of run_once until it returns or raises.
SimWorkerFree(s) ==
  Cardinality({t \in Sims : pc[t] \notin {"unsubmitted", "generate_agents",
                                          "returned", "raised"}})
    + Cardinality({t \in Sims : pc[t] = "generate_agents" /\ t < s}) < MaxWorkers

\* agents = self.generate_agents(simulation_ind), outside the try block.
GenerateAgents(s) ==
  /\ pc[s] = "generate_agents"
  /\ SimWorkerFree(s)
  /\ \E n \in {0, NumAgents} : agents' = Upd(agents, s, n)
  /\ pc' = Upd(pc, s, "loop")
  /\ UNCHANGED <<ovars, progress, lock, record, round, sub, task, collected,
                 results, faults, snapshots, updates, nCollected, rpCalls>>

GenerateAgentsRaises(s) ==
  /\ pc[s] = "generate_agents"
  /\ SimWorkerFree(s)
  /\ faults' = Upd(faults, s, faults[s] \cup {"generate_agents"})
  /\ pc' = Upd(pc, s, "raised")
  /\ UNCHANGED <<ovars, progress, lock, record, agents, round, sub, task,
                 collected, results, snapshots, updates, nCollected, rpCalls>>

\* for round in range(self.__n_round): results = queue.Queue(); n_thread = ...;
\* with ThreadPoolExecutor(n_thread): ValueError when n_thread is 0; futures = []
EnterRound(s) ==
  /\ pc[s] = "loop"
  /\ round[s] < NumRounds
  /\ results' = Upd(results, s, <<>>)
  /\ IF Width(agents[s], round[s]) <= 0
       THEN /\ faults' = Upd(faults, s, faults[s] \cup {"pool"})
            /\ pc' = Upd(pc, s, "except")
            /\ UNCHANGED <<sub, task, collected>>
       ELSE /\ pc' = Upd(pc, s, "submit")
            /\ sub' = Upd(sub, s, 0)
            /\ task' = Upd(task, s, DropFinished(task[s]))
            /\ collected' = Upd(collected, s, <<>>)
            /\ UNCHANGED faults
  /\ UNCHANGED <<ovars, progress, lock, record, agents, round, snapshots,
                 updates, nCollected, rpCalls>>

\* Variant: range(self.__n_round - 1), the last round is never run.
LoopDoneEarly(s) ==
  /\ pc[s] = "loop"
  /\ round[s] >= NumRounds - 1
  /\ pc' = Upd(pc, s, "snapshot")
  /\ UNCHANGED <<ovars, progress, lock, record, agents, round, sub, task,
                 collected, results, faults, snapshots, updates, nCollected,
                 rpCalls>>

\* range(self.__n_round) is exhausted: fall through to the finally block.
LoopDone(s) ==
  /\ pc[s] = "loop"
  /\ round[s] >= NumRounds
  /\ pc' = Upd(pc, s, "snapshot")
  /\ UNCHANGED <<ovars, progress, lock, record, agents, round, sub, task,
                 collected, results, faults, snapshots, updates, nCollected,
                 rpCalls>>

\* question = self.generate_question(agent, round);
\* futures.append(agent_executor.submit(agent.answer, ...))
AskAndSubmit(s) ==
  /\ pc[s] = "submit"
  /\ sub[s] < agents[s]
  /\ task' = Upd(task, s, [task[s] EXCEPT ![sub[s]] = "queued"])
  /\ sub' = Upd(sub, s, sub[s] + 1)
  /\ UNCHANGED <<ovars, progress, lock, record, pc, agents, round, collected,
                 results, faults, snapshots, updates, nCollected, rpCalls>>

\* generate_question or submit raises inside the with block.
SubmitLoopRaises(s, kind) ==
  /\ pc[s] = "submit"
  /\ sub[s] < agents[s]
  /\ faults' = Upd(faults, s, faults[s] \cup {kind})
  /\ pc' = Upd(pc, s, "abort")
  /\ UNCHANGED <<ovars, progress, lock, record, agents, round, sub, task,
                 collected, results, snapshots, updates, nCollected, rpCalls>>

GenerateQuestionRaises(s) == SubmitLoopRaises(s, "generate_question")

SubmitRaises(s) == SubmitLoopRaises(s, "submit")

\* enumerate(agents) is exhausted: enter the as_completed loop.
SubmitDone(s) ==
  /\ pc[s] = "submit"
  /\ sub[s] >= agents[s]
  /\ pc' = Upd(pc, s, "collect")
  /\ UNCHANGED <<ovars, progress, lock, record, agents, round, sub, task,
                 collected, results, faults, snapshots, updates, nCollected,
                 rpCalls>>

\* Variant: a free worker takes any pending work item, not the oldest.
WorkerFreeAnyOrder(s, i) ==
  Cardinality(Running(s)) < Width(agents[s], round[s])

\* A worker of the inner pool takes the work items in FIFO order; a pool of
\* width w has at most w workers, each busy from taking an item to its end.
WorkerFree(s, i) ==
  Cardinality(Running(s)) + Cardinality({j \in InFlight(s) \ Running(s) : j < i})
    < Width(agents[s], round[s])

\* agent.answer(question, agent_ind, round, simulation_ind) starts.
StartAnswer(s, i) ==
  /\ task[s][i] = "queued"
  /\ WorkerFree(s, i)
  /\ task' = Upd(task, s, [task[s] EXCEPT ![i] = "running"])
  /\ UNCHANGED <<ovars, progress, lock, record, pc, agents, round, sub,
                 collected, results, faults, snapshots, updates, nCollected,
                 rpCalls>>

AnswerReturns(s, i) ==
  /\ task[s][i] = "running"
  /\ task' = Upd(task, s, [task[s] EXCEPT ![i] = "ok"])
  /\ UNCHANGED <<ovars, progress, lock, record, pc, agents, round, sub,
                 collected, results, faults, snapshots, updates, nCollected,
                 rpCalls>>

AnswerRaises(s, i) ==
  /\ task[s][i] = "running"
  /\ task' = Upd(task, s, [task[s] EXCEPT ![i] = "err"])
  /\ UNCHANGED <<ovars, progress, lock, record, pc, agents, round, sub,
                 collected, results, faults, snapshots, updates, nCollected,
                 rpCalls>>

\* The answer call never returns: there is no timeout, the task keeps its
\* worker thread and its future never finishes.
AnswerHangs(s, i) ==
  /\ task[s][i] = "running"
  /\ task' = Upd(task, s, [task[s] EXCEPT ![i] = "hung"])
  /\ UNCHANGED <<ovars, progress, lock, record, pc, agents, round, sub,
                 collected, results, faults, snapshots, updates, nCollected,
                 rpCalls>>

\* Variant: a failed future contributes a placeholder to the results.
CollectWithPlaceholder(s, i) ==
  /\ pc[s] = "collect"
  /\ i \in Done(s) \ Yielded(s)
  /\ collected' = Upd(collected, s, Append(collected[s], i))
  /\ results' = Upd(results, s, Append(results[s],
                     <<i, IF task[s][i] = "ok" THEN round[s] ELSE -1>>))
  /\ UNCHANGED <<ovars, progress, lock, record, pc, agents, round, sub, task,
                 faults, snapshots, updates, nCollected, rpCalls>>

\* as_completed(futures) yields a finished future: its exception is printed,
\* or idx, result = future.result(); results.put((idx, result)).
Collect(s, i) ==
  /\ pc[s] = "collect"
  /\ i \in Done(s) \ Yielded(s)
  /\ collected' = Upd(collected, s, Append(collected[s], i))
  /\ results' = IF task[s][i] = "ok"
                  THEN Upd(results, s, Append(results[s], <<i, round[s]>>))
                  ELSE results
  /\ UNCHANGED <<ovars, progress, lock, record, pc, agents, round, sub, task,
                 faults, snapshots, updates, nCollected, rpCalls>>

\* idx, result = future.result() raises (answer did not return a pair).
UnpackRaises(s, i) ==
  /\ pc[s] = "collect"
  /\ i \in Done(s) \ Yielded(s)
  /\ task[s][i] = "ok"
  /\ collected' = Upd(collected, s, Append(collected[s], i))
  /\ faults' = Upd(faults, s, faults[s] \cup {"unpack"})
  /\ pc' = Upd(pc, s, "abort")
  /\ UNCHANGED <<ovars, progress, lock, record, agents, round, sub, task,
                 results, snapshots, updates, nCollected, rpCalls>>

\* as_completed has yielded every future of the round.
AllYielded(s) == Yielded(s) = AgentsOf(s)

\* Variant: the inner pool is shut down with wait=False.
PoolNotJoined(s) == TRUE

\* ThreadPoolExecutor.__exit__ of the inner pool: shutdown(wait=True).
PoolJoined(s) == InFlight(s) = {}

\* The with block is left normally.
LeavePool(s) ==
  /\ pc[s] = "collect"
  /\ AllYielded(s)
  /\ PoolJoined(s)
  /\ pc' = Upd(pc, s, "sort")
  /\ nCollected' = Upd(nCollected, s, nCollected[s] + 1)
  /\ UNCHANGED <<ovars, progress, lock, record, agents, round, sub, task,
                 collected, results, faults, snapshots, updates, rpCalls>>

\* Variant: the pool is shut down without waiting (shutdown(wait=False)).
AbortPoolNoWait(s) ==
  /\ pc[s] = "abort"
  /\ pc' = Upd(pc, s, "except")
  /\ task' = Upd(task, s, DropFinished(task[s]))
  /\ collected' = Upd(collected, s, <<>>)
  /\ results' = Upd(results, s, <<>>)
  /\ UNCHANGED <<ovars, progress, lock, record, agents, round, sub, faults,
                 snapshots, updates, nCollected, rpCalls>>

\* The with block is left by an exception: the pool is joined, then the
\* exception reaches "except Exception as e". The futures and the queue are
\* not used again; agent_ind keeps the index reached by the submission loop.
AbortPool(s) ==
  /\ pc[s] = "abort"
  /\ PoolJoined(s)
  /\ pc' = Upd(pc, s, "except")
  /\ task' = Upd(task, s, DropFinished(task[s]))
  /\ collected' = Upd(collected, s, <<>>)
  /\ results' = Upd(results, s, <<>>)
  /\ UNCHANGED <<ovars, progress, lock, record, agents, round, sub, faults,
                 snapshots, updates, nCollected, rpCalls>>

\* Variant: round_postprocess is called right after the sort, the counter is
\* left for later.
SortThenPostprocess(s) ==
  /\ pc[s] = "sort"
  /\ results' = Upd(results, s, Sorted(results[s]))
  /\ pc' = Upd(pc, s, "postprocess")
  /\ UNCHANGED <<ovars, progress, lock, record, agents, round, sub, task,
                 collected, faults, snapshots, updates, nCollected, rpCalls>>

\* results = list(results.queue); results = sorted(results, key=lambda x: x[0])
SortResults(s) ==
  /\ pc[s] = "sort"
  /\ results' = Upd(results, s, Sorted(results[s]))
  /\ pc' = Upd(pc, s, "update")
  /\ UNCHANGED <<ovars, progress, lock, record, agents, round, sub, task,
                 collected, faults, snapshots, updates, nCollected, rpCalls>>

\* Variant: the bar is set to the simulation's own round count (progress.n = round + 1).
UpdateProgressOwnCount(s) ==
  /\ pc[s] = "update"
  /\ progress' = nCollected[s]
  /\ pc' = Upd(pc, s, "postprocess")
  /\ UNCHANGED <<ovars, lock, record, agents, round, sub, task, collected,
                 results, faults, snapshots, updates, nCollected, rpCalls>>

\* progress.update(1)
UpdateProgress(s) ==
  /\ pc[s] = "update"
  /\ progress' = progress + 1
  /\ pc' = Upd(pc, s, "postprocess")
  /\ UNCHANGED <<ovars, lock, record, agents, round, sub, task, collected,
                 results, faults, snapshots, updates, nCollected, rpCalls>>

\* self.round_postprocess(simulation_ind, round, results, agents) returns.
RoundPostprocess(s) ==
  /\ pc[s] = "postprocess"
  /\ rpCalls' = Upd(rpCalls, s, rpCalls[s] + 1)
  /\ round' = Upd(round, s, round[s] + 1)
  /\ pc' = Upd(pc, s, "loop")
  /\ task' = Upd(task, s, DropFinished(task[s]))
  /\ collected' = Upd(collected, s, <<>>)
  /\ sub' = Upd(sub, s, 0)
  /\ results' = Upd(results, s, <<>>)
  /\ UNCHANGED <<ovars, progress, lock, record, agents, faults, snapshots,
                 updates, nCollected>>

\* Variant: the try block stands inside the round loop, so a failed round is
\* logged and the next round runs.
RoundPostprocessSwallowed(s) ==
  /\ pc[s] = "postprocess"
  /\ rpCalls' = Upd(rpCalls, s, rpCalls[s] + 1)
  /\ faults' = Upd(faults, s, faults[s] \cup {"round_postprocess"})
  /\ round' = Upd(round, s, round[s] + 1)
  /\ pc' = Upd(pc, s, "loop")
  /\ task' = Upd(task, s, DropFinished(task[s]))
  /\ collected' = Upd(collected, s, <<>>)
  /\ sub' = Upd(sub, s, 0)
  /\ results' = Upd(results, s, <<>>)
  /\ UNCHANGED <<ovars, progress, lock, record, agents, snapshots, updates,
                 nCollected>>

RoundPostprocessRaises(s) ==
  /\ pc[s] = "postprocess"
  /\ rpCalls' = Upd(rpCalls, s, rpCalls[s] + 1)
  /\ faults' = Upd(faults, s, faults[s] \cup {"round_postprocess"})
  /\ pc' = Upd(pc, s, "except")
  /\ task' = Upd(task, s, DropFinished(task[s]))
  /\ collected' = Upd(collected, s, <<>>)
  /\ sub' = Upd(sub, s, 0)
  /\ results' = Upd(results, s, <<>>)
  /\ UNCHANGED <<ovars, progress, lock, record, agents, round, snapshots,
                 updates, nCollected>>

\* Variant: the cleanup follows the loop inside the try block instead of
\* standing in a finally block, so a caught error skips it.
CatchWithoutFinally(s) ==
  /\ pc[s] = "except"
  /\ pc' = Upd(pc, s, "returned")
  /\ UNCHANGED <<ovars, progress, lock, record, agents, round, sub, task,
                 collected, results, faults, snapshots, updates, nCollected,
                 rpCalls>>

\* except Exception as e: print(f"error:{e}")
CatchInRunOnce(s) ==
  /\ pc[s] = "except"
  /\ pc' = Upd(pc, s, "snapshot")
  /\ UNCHANGED <<ovars, progress, lock, record, agents, round, sub, task,
                 collected, results, faults, snapshots, updates, nCollected,
                 rpCalls>>

\* finally: agent_contexts = [agent.get_memories() for agent in agents]
Snapshot(s) ==
  /\ pc[s] = "snapshot"
  /\ snapshots' = Upd(snapshots, s, snapshots[s] + 1)
  /\ pc' = Upd(pc, s, "acquire")
  /\ UNCHANGED <<ovars, progress, lock, record, agents, round, sub, task,
                 collected, results, faults, updates, nCollected, rpCalls>>

\* some agent's get_memories raises: the exception leaves run_once.
SnapshotRaises(s) ==
  /\ pc[s] = "snapshot"
  /\ agents[s] > 0
  /\ snapshots' = Upd(snapshots, s, snapshots[s] + 1)
  /\ faults' = Upd(faults, s, faults[s] \cup {"get_memories"})
  /\ pc' = Upd(pc, s, "raised")
  /\ UNCHANGED <<ovars, progress, lock, record, agents, round, sub, task,
                 collected, results, updates, nCollected, rpCalls>>

\* Variant: update_record is called without taking the lock.
LockIgnored == TRUE

\* with self.__lock: threading.Lock.acquire blocks while the lock is held.
LockFree == lock = NoOne

AcquireLock(s) ==
  /\ pc[s] = "acquire"
  /\ LockFree
  /\ lock' = s
  /\ pc' = Upd(pc, s, "update_record")
  /\ UNCHANGED <<ovars, progress, record, agents, round, sub, task, collected,
                 results, faults, snapshots, updates, nCollected, rpCalls>>

\* self.update_record(self.__record, agent_contexts, simulation_ind), as a
\* write in two steps: the entry is opened, then completed.
UpdateRecordBegin(s) ==
  /\ pc[s] = "update_record"
  /\ updates' = Upd(updates, s, updates[s] + 1)
  /\ record' = Append(record, <<s, "open">>)
  /\ pc' = Upd(pc, s, "writing")
  /\ UNCHANGED <<ovars, progress, lock, agents, round, sub, task, collected,
                 results, faults, snapshots, nCollected, rpCalls>>

UpdateRecordEnd(s) ==
  /\ pc[s] = "writing"
  /\ record' = Append(record, <<s, "close">>)
  /\ pc' = Upd(pc, s, "release")
  /\ UNCHANGED <<ovars, progress, lock, agents, round, sub, task, collected,
                 results, faults, snapshots, updates, nCollected, rpCalls>>

\* Variant: the exception of update_record leaves run_once with the lock held.
UpdateRecordRaisesHolding(s) ==
  /\ pc[s] \in {"update_record", "writing"}
  /\ updates' = IF pc[s] = "update_record"
                  THEN Upd(updates, s, updates[s] + 1) ELSE updates
  /\ faults' = Upd(faults, s, faults[s] \cup {"update_record"})
  /\ pc' = Upd(pc, s, "raised")
  /\ UNCHANGED <<ovars, progress, lock, record, agents, round, sub, task,
                 collected, results, snapshots, nCollected, rpCalls>>

\* update_record raises, before its first write or between the two.
UpdateRecordRaises(s) ==
  /\ pc[s] \in {"update_record", "writing"}
  /\ updates' = IF pc[s] = "update_record"
                  THEN Upd(updates, s, updates[s] + 1) ELSE updates
  /\ faults' = Upd(faults, s, faults[s] \cup {"update_record"})
  /\ pc' = Upd(pc, s, "release_exc")
  /\ UNCHANGED <<ovars, progress, lock, record, agents, round, sub, task,
                 collected, results, snapshots, nCollected, rpCalls>>

\* Variant: acquire() and release() around the call without try/finally; an
\* exception of update_record leaves the lock held.
ReleaseLockOnReturnOnly(s) ==
  /\ pc[s] \in {"release", "release_exc"}
  /\ lock' = IF pc[s] = "release" THEN NoOne ELSE lock
  /\ pc' = Upd(pc, s, IF pc[s] = "release" THEN "returned" ELSE "raised")
  /\ UNCHANGED <<ovars, progress, record, agents, round, sub, task, collected,
                 results, faults, snapshots, updates, nCollected, rpCalls>>

\* the with statement releases the lock on return and on exception.
ReleaseLock(s) ==
  /\ pc[s] \in {"release", "release_exc"}
  /\ lock' = NoOne
  /\ pc' = Upd(pc, s, IF pc[s] = "release" THEN "returned" ELSE "raised")
  /\ UNCHANGED <<ovars, progress, record, agents, round, sub, task, collected,
                 results, faults, snapshots, updates, nCollected, rpCalls>>

----------------------------------------------------------------------------
Next ==
  \/ MakeExecutor
  \/ MakeProgress
  \/ MakeProgressRaises
  \/ SubmitSim
  \/ SubmitSimRaises
  \/ DispatchDone
  \/ \E s \in Sims : ExamineFuture(s)
  \/ CloseProgress
  \/ ShutdownExecutor
  \/ CatchInRun
  \/ ExpPostprocess
  \/ \E s \in Sims : GenerateAgents(s)
  \/ \E s \in Sims : GenerateAgentsRaises(s)
  \/ \E s \in Sims : EnterRound(s)
  \/ \E s \in Sims : LoopDone(s)
  \/ \E s \in Sims : AskAndSubmit(s)
  \/ \E s \in Sims : GenerateQuestionRaises(s)
  \/ \E s \in Sims : SubmitRaises(s)
  \/ \E s \in Sims : SubmitDone(s)
  \/ \E s \in Sims, i \in AgentIds : StartAnswer(s, i)
  \/ \E s \in Sims, i \in AgentIds : AnswerReturns(s, i)
  \/ \E s \in Sims, i \in AgentIds : AnswerRaises(s, i)
  \/ \E s \in Sims, i \in AgentIds : Collect(s, i)
  \/ \E s \in Sims, i \in AgentIds : UnpackRaises(s, i)
  \/ \E s \in Sims : LeavePool(s)
  \/ \E s \in Sims : AbortPool(s)
  \/ \E s \in Sims : SortResults(s)
  \/ \E s \in Sims : UpdateProgress(s)
  \/ \E s \in Sims : RoundPostprocess(s)
  \/ \E s \in Sims : RoundPostprocessRaises(s)
  \/ \E s \in Sims : CatchInRunOnce(s)
  \/ \E s \in Sims : Snapshot(s)
  \/ \E s \in Sims : SnapshotRaises(s)
  \/ \E s \in Sims : AcquireLock(s)
  \/ \E s \in Sims : UpdateRecordBegin(s)
  \/ \E s \in Sims : UpdateRecordEnd(s)
  \/ \E s \in Sims : UpdateRecordRaises(s)
  \/ \E s \in Sims : ReleaseLock(s)

Spec == Init /\ [][Next]_vars

\* The executions in which no collaborator call and no submit raises.
NextNoRaise ==
  \/ MakeExecutor
  \/ MakeProgress
  \/ SubmitSim
  \/ DispatchDone
  \/ \E s \in Sims : ExamineFuture(s)
  \/ CloseProgress
  \/ ShutdownExecutor
  \/ CatchInRun
  \/ ExpPostprocess
  \/ \E s \in Sims : GenerateAgents(s)
  \/ \E s \in Sims : EnterRound(s)
  \/ \E s \in Sims : LoopDone(s)
  \/ \E s \in Sims : AskAndSubmit(s)
  \/ \E s \in Sims : SubmitDone(s)
  \/ \E s \in Sims, i \in AgentIds : StartAnswer(s, i)
  \/ \E s \in Sims, i \in AgentIds : AnswerReturns(s, i)
  \/ \E s \in Sims, i \in AgentIds : Collect(s, i)
  \/ \E s \in Sims : LeavePool(s)
  \/ \E s \in Sims : SortResults(s)
  \/ \E s \in Sims : UpdateProgress(s)
  \/ \E s \in Sims : RoundPostprocess(s)
  \/ \E s \in Sims : CatchInRunOnce(s)
  \/ \E s \in Sims : Snapshot(s)
  \/ \E s \in Sims : AcquireLock(s)
  \/ \E s \in Sims : UpdateRecordBegin(s)
  \/ \E s \in Sims : UpdateRecordEnd(s)
  \/ \E s \in Sims : ReleaseLock(s)

SpecNoRaise == Init /\ [][NextNoRaise]_vars

\* The steps of NextNoRaise and the calls of run() and of run_once outside the
\* inner pool that can raise: tqdm, submit, generate_agents, round_postprocess,
\* get_memories and update_record.
NextFoldIn ==
  \/ NextNoRaise
  \/ MakeProgressRaises
  \/ SubmitSimRaises
  \/ \E s \in Sims : GenerateAgentsRaises(s)
  \/ \E s \in Sims : RoundPostprocessRaises(s)
  \/ \E s \in Sims : SnapshotRaises(s)
  \/ \E s \in Sims : UpdateRecordRaises(s)

\* The steps of Next and an answer call that never terminates.
NextHang ==
  \/ Next
  \/ \E s \in Sims, i \in AgentIds : AnswerHangs(s, i)

SpecHang == Init /\ [][NextHang]_vars

\* Every collaborator call returns or raises and the scheduler lets a runnable
\* thread run: a step that stays possible is eventually taken.
FairSpec == Init /\ [][NextFoldIn]_vars /\ WF_vars(NextFoldIn)

----------------------------------------------------------------------------
\* Vocabulary of the properties

Dispatched == {s \in Sims : s < submitted}

\* Calls whose exception is caught by "except Exception" in run_once.
RoundFaults == {"pool", "generate_question", "submit", "unpack", "round_postprocess"}

\* Between the start of update_record and its return or raise.
InUpdateRecord(s) == pc[s] \in {"update_record", "writing"}

\* Positions of the complete entries of simulation s in the record.
Entries(s) ==
  {k \in 1 .. (Len(record) - 1) :
     record[k] = <<s, "open">> /\ record[k + 1] = <<s, "close">>}

Indices(sq) == [k \in 1 .. Len(sq) |-> sq[k][1]]

StrictlyAscending(sq) == \A k \in 1 .. (Len(sq) - 1) : sq[k] < sq[k + 1]

OkTasks(s) == {i \in AgentsOf(s) : task[s][i] = "ok"}
ErrTasks(s) == {i \in AgentsOf(s) : task[s][i] = "err"}

\* Positions of run_once from the abort of a round to the end.
AfterRounds ==
  {"abort", "except", "snapshot", "acquire", "update_record", "writing",
   "release", "release_exc", "returned", "raised"}

RECURSIVE SumTo(_, _)
SumTo(f, n) == IF n <= 0 THEN 0 ELSE f[n - 1] + SumTo(f, n - 1)

\* Rounds of s whose progress.update(1) has been executed.
Counted(s) == nCollected[s] - (IF pc[s] \in {"sort", "update"} THEN 1 ELSE 0)

\* A simulation that did not run all its rounds: never dispatched, or
\* generate_agents or a round of it failed.
FailedSim(s) ==
  \/ s >= submitted
  \/ faults[s] \cap (RoundFaults \cup {"generate_agents"}) # {}

\* (simulation, round) units of s that were never completed.
Lost(s) == IF FailedSim(s) THEN NumRounds - nCollected[s] ELSE 0

----------------------------------------------------------------------------
\* C1: at most one simulation is inside update_record at any time and it
\* holds the lock during the whole call; a write to the record is a close
\* only right after the open of the same simulation, an open entry that is
\* not closed belongs to the simulation writing it now or to one whose
\* update_record raised; after N successful fold-ins the record consists of
\* exactly N complete entries, one per simulation.
C1_MutualExclusion ==
  /\ Cardinality({s \in Sims : InUpdateRecord(s)}) <= 1
  /\ \A s \in Sims : InUpdateRecord(s) => lock = s
  /\ \A k \in 1 .. Len(record) :
       /\ record[k][2] = "close" =>
            k > 1 /\ record[k - 1] = <<record[k][1], "open">>
       /\ (record[k][2] = "open"
             /\ (k = Len(record) \/ record[k + 1] # <<record[k][1], "close">>)) =>
            \/ k = Len(record) /\ pc[record[k][1]] = "writing"
            \/ "update_record" \in faults[record[k][1]]
  /\ (n_experiment > 0 /\ \A s \in Sims : pc[s] = "returned") =>
       /\ Len(record) = 2 * n_experiment
       /\ \A s \in Sims : Cardinality(Entries(s)) = 1

\* One simulation is half way through its write while another waits for the lock.
C1_Witness ==
  \E s, t \in Sims :
    /\ s # t
    /\ pc[s] = "writing"
    /\ pc[t] = "acquire"
    /\ record # <<>>
    /\ record[Len(record)] = <<s, "open">>

\* C2 as stated: every dispatched simulation that has ended has taken the
\* snapshot exactly once and called update_record exactly once.
C2_AsStated ==
  \A s \in Dispatched : Terminal(s) => snapshots[s] = 1 /\ updates[s] = 1

\* C2, amended: the snapshot and update_record never happen twice, and
\* update_record never without the snapshot; a simulation whose
\* generate_agents returned takes the snapshot exactly once on every path
\* through its rounds, and calls update_record exactly once unless
\* get_memories raised; when generate_agents or get_memories raised,
\* update_record is not called.
C2_CleanupOnce ==
  \A s \in Sims :
    /\ snapshots[s] <= 1
    /\ updates[s] <= snapshots[s]
    /\ (Terminal(s) /\ "generate_agents" \notin faults[s]) => snapshots[s] = 1
    /\ (Terminal(s) /\ faults[s] \cap {"generate_agents", "get_memories"} = {})
         => updates[s] = 1
    /\ faults[s] \cap {"generate_agents", "get_memories"} # {} => updates[s] = 0
    /\ "generate_agents" \in faults[s] => snapshots[s] = 0

\* A simulation whose round failed has ended after one snapshot and one update_record.
C2_Witness ==
  \E s \in Sims :
    /\ pc[s] = "returned"
    /\ faults[s] \cap RoundFaults # {}
    /\ snapshots[s] = 1
    /\ updates[s] = 1

\* C3: exp_postprocess is invoked at most once, exactly once when run() is
\* over, and from the moment run() reaches its finally block every
\* dispatched simulation has returned or raised.
C3_FinalizeOnceLast ==
  /\ postCount <= 1
  /\ postCount = 1 <=> opc = "done"
  /\ opc \in {"finally", "done"} => \A s \in Dispatched : Terminal(s)

\* run() is over, both simulations ran, one of them failed.
C3_Witness ==
  /\ opc = "done"
  /\ postCount = 1
  /\ submitted = NumExp
  /\ \E s, t \in Sims : pc[s] = "raised" /\ pc[t] = "returned"

\* C4: the results handed to round_postprocess are strictly ascending by
\* agent index, whatever the order in which the futures were yielded.
C4_AscendingResults ==
  \A s \in Sims :
    pc[s] \in {"update", "postprocess"} => StrictlyAscending(Indices(results[s]))

\* round_postprocess is about to receive [0, 1] although agent 1 was
\* collected before agent 0.
C4_Witness ==
  \E s \in Sims :
    /\ pc[s] = "postprocess"
    /\ collected[s] = <<1, 0>>
    /\ Indices(results[s]) = <<0, 1>>

\* C5: when nothing raises and every simulation has NumAgents agents, each
\* round_postprocess call receives the indices 0..NumAgents-1, the number of
\* round_postprocess calls of a simulation follows its round index (one call
\* per round), and when run() is over the counter is N*R, every simulation
\* made NumRounds round_postprocess calls and one update_record call, and the
\* record holds one complete entry per simulation.
C5_Completeness ==
  /\ \A s \in Sims :
       agents[s] = NumAgents =>
         /\ rpCalls[s] = round[s]
         /\ pc[s] = "postprocess" =>
              Indices(results[s]) = [k \in 1 .. NumAgents |-> k - 1]
  /\ (opc = "done" /\ \A s \in Sims : agents[s] = NumAgents) =>
       /\ progress = n_experiment * NumRounds
       /\ Len(record) = 2 * n_experiment
       /\ \A s \in Sims :
            /\ rpCalls[s] = NumRounds
            /\ updates[s] = 1
            /\ Cardinality(Entries(s)) = 1

\* run() is over after NumExp simulations of NumAgents agents each.
C5_Witness ==
  /\ opc = "done"
  /\ n_experiment = NumExp
  /\ \A s \in Sims : agents[s] = NumAgents /\ pc[s] = "returned"
  /\ progress = NumExp * NumRounds

\* C6: when a round's futures have all been collected, every agent task of
\* the round has run to its end, the results hold exactly the agents whose
\* answer returned (no entry for an agent whose answer raised, so the length
\* is the agent count minus the failures), and a round is only abandoned
\* after a coordinator-level error, never because an answer raised.
C6_PartialResult ==
  \A s \in Sims :
    /\ pc[s] \in {"sort", "update", "postprocess"} =>
         /\ Done(s) = AgentsOf(s)
         /\ {results[s][k][1] : k \in 1 .. Len(results[s])} = OkTasks(s)
         /\ \A k \in 1 .. Len(results[s]) : results[s][k][2] = round[s]
         /\ Len(results[s]) = agents[s] - Cardinality(ErrTasks(s))
    /\ pc[s] \in {"abort", "except"} => faults[s] \cap RoundFaults # {}

\* One simulation hands a round with one failed agent to round_postprocess,
\* in a round after the first, while another hands over a full round.
C6_Witness ==
  \E s, t \in Sims :
    /\ s # t
    /\ pc[s] = "postprocess"
    /\ round[s] >= 1
    /\ Cardinality(ErrTasks(s)) = 1
    /\ Len(results[s]) = NumAgents - 1
    /\ pc[t] = "postprocess"
    /\ ErrTasks(t) = {}
    /\ Len(results[t]) = NumAgents

\* C7: after a coordinator-level error in a round, the simulation runs no
\* further round; the error does not leave run_once; if nothing else raises
\* in that simulation it returns after exactly one update_record that
\* completed its entry; and a simulation in which nothing raised ends only
\* after all NumRounds rounds and its own fold-in, whatever the others did.
C7_Isolation ==
  \A s \in Sims :
    /\ faults[s] \cap RoundFaults # {} =>
         /\ pc[s] \in AfterRounds
         /\ round[s] < NumRounds
         /\ rpCalls[s] <= round[s] + 1
    /\ pc[s] = "raised" => ExceptionOf(s) # {}
    /\ (Terminal(s) /\ faults[s] # {} /\ faults[s] \subseteq RoundFaults) =>
         /\ pc[s] = "returned"
         /\ updates[s] = 1
         /\ Cardinality(Entries(s)) = 1
    /\ (Terminal(s) /\ faults[s] = {}) =>
         /\ pc[s] = "returned"
         /\ round[s] = NumRounds
         /\ rpCalls[s] = NumRounds
         /\ updates[s] = 1
         /\ Cardinality(Entries(s)) = 1

\* A simulation stopped by a round error has folded in, and so has another
\* one that ran all its rounds.
C7_Witness ==
  \E s, t \in Sims :
    /\ s # t
    /\ pc[s] = "returned"
    /\ faults[s] \cap RoundFaults # {}
    /\ agents[s] = NumAgents
    /\ round[s] < NumRounds
    /\ updates[s] = 1
    /\ pc[t] = "returned"
    /\ faults[t] = {}
    /\ round[t] = NumRounds

\* C8: never more answer calls of one simulation run at once than it has
\* agents, and in a round with index >= 4 at most one.
C8_WidthPolicy ==
  \A s \in Sims :
    /\ Cardinality(Running(s)) <= agents[s]
    /\ round[s] >= ParallelRounds => Cardinality(Running(s)) <= 1

\* One simulation has all its agents answering in an early round while
\* another, in a late round, has one answering and one waiting its turn.
C8_Witness ==
  \E s, t \in Sims :
    /\ round[s] < ParallelRounds
    /\ Running(s) = AgentIds
    /\ round[t] >= ParallelRounds
    /\ Cardinality(Running(t)) = 1
    /\ InFlight(t) \ Running(t) # {}

\* C9: agent tasks are pending or running only while their round's with
\* block is open; questions are generated and tasks submitted for round r
\* only when r rounds have been collected and post-processed; and the round
\* index only moves on, by one, when round_postprocess returns with every
\* task of the round finished.
C9_SequentialRounds ==
  /\ [](\A s \in Sims :
          /\ InFlight(s) # {} => pc[s] \in {"submit", "collect", "abort"}
          /\ pc[s] \in {"submit", "collect", "abort"} =>
               rpCalls[s] = round[s] /\ nCollected[s] = round[s])
  /\ [][\A s \in Sims :
          round'[s] # round[s] =>
            /\ pc[s] = "postprocess"
            /\ round'[s] = round[s] + 1
            /\ InFlight(s) = {}
            /\ Done(s) = AgentsOf(s)]_vars

\* Tasks of a later round are running after the earlier rounds were post-processed.
C9_Witness ==
  \E s \in Sims :
    /\ round[s] >= 1
    /\ Running(s) # {}
    /\ rpCalls[s] = round[s]

C11_FaultStillFinalizes ==
  /\ n_experiment = 0 /\ opc # "executor" => runFault = "ValueError"
  /\ runFault # "none" =>
       /\ opc \in {"shutdown_exc", "except", "finally", "done"}
       /\ opc \in {"shutdown_exc", "except"} => postCount = 0
       /\ opc = "done" =>
            /\ postCount = 1
            /\ Cardinality({k \in 1 .. Len(reports) :
                              reports[k] = <<"An exception occurred", runFault>>}) = 1

\* run() with N = 0 is over: the ValueError was reported and exp_postprocess ran.
C11_Witness ==
  /\ n_experiment = 0
  /\ opc = "done"
  /\ runFault = "ValueError"
  /\ reports = << <<"An exception occurred", "ValueError">> >>
  /\ postCount = 1

\* C12: as stated, every failed simulation future the as_completed loop of
\* run() has examined has exactly one report line that carries its exception
\* and its simulation index.
C12_AsStated ==
  \A s \in examined :
    pc[s] = "raised" =>
      Cardinality({k \in 1 .. Len(reports) :
                     /\ reports[k][1] = "A thread raised an exception"
                     /\ reports[k][2] = ExceptionOf(s)
                     /\ Len(reports[k]) >= 3
                     /\ reports[k][3] = s}) = 1

\* C13: run() hands run_once to the executor once per index, in the order
\* 0, 1, ..., and once the dispatch is complete every index 0..N-1 has been
\* started; a run_once never starts a second time; a dispatched run_once never
\* has to wait for a worker thread, whatever the other simulations are doing.
C13_DispatchOnceUnthrottled ==
  /\ [](/\ submitted <= n_experiment
        /\ \A s \in Sims : pc[s] # "unsubmitted" <=> s < submitted
        /\ opc \in {"wait", "shutdown"} => submitted = n_experiment
        /\ opc \in {"finally", "done"} /\ runFault = "none"
             => submitted = n_experiment
        /\ \A s \in Sims : pc[s] = "generate_agents" => SimWorkerFree(s))
  /\ [][\A s \in Sims :
          pc[s] # "generate_agents" /\ pc'[s] = "generate_agents"
            => pc[s] = "unsubmitted" /\ submitted = s /\ submitted' = s + 1]_vars

\* All N simulations are in progress at once, each with an answer task running.
C13_Witness ==
  /\ n_experiment = NumExp
  /\ \A s \in Sims : pc[s] \in {"submit", "collect"} /\ Running(s) # {}

C15_NoTimeout ==
  /\ [](\A s \in Sims :
          Hung(s) # {} =>
            /\ pc[s] \in {"submit", "collect", "abort"}
            /\ nCollected[s] = round[s]
            /\ rpCalls[s] = round[s]
            /\ snapshots[s] = 0
            /\ updates[s] = 0
            /\ lock # s
            /\ s \notin examined
            /\ opc \notin {"except", "finally", "done"}
            /\ postCount = 0)
  /\ [][\A s \in Sims : \A i \in AgentIds :
          task[s][i] = "hung" =>
            /\ task'[s][i] = "hung"
            /\ round'[s] = round[s]
            /\ ~Terminal(s)']_vars

\* One simulation hangs in a round while the other has completed all its
\* rounds and its fold-in and has been examined by run(), which still waits.
C15_Witness ==
  \E s, t \in Sims :
    /\ Hung(s) # {}
    /\ pc[t] = "returned"
    /\ round[t] = NumRounds
    /\ \E k \in 1 .. Len(record) : record[k] = <<t, "close">>
    /\ t \in examined
    /\ opc = "wait"

\* C16: a round whose futures were all collected is counted before its
\* round_postprocess is invoked: while round_postprocess of a round is about
\* to be called, and after it raised, the counter already includes that round,
\* and round_postprocess is invoked once per such round with sorted results.
\* A round aborted before its collection was complete is neither counted nor
\* post-processed.
C16_CountThenPostprocess ==
  /\ progress =
       SumTo([s \in Sims |->
                round[s] + (IF \/ pc[s] = "postprocess"
                               \/ "round_postprocess" \in faults[s]
                              THEN 1 ELSE 0)], NumExp)
  /\ \A s \in Sims :
       /\ rpCalls[s] =
            round[s] + (IF "round_postprocess" \in faults[s] THEN 1 ELSE 0)
       /\ pc[s] \in {"sort", "update", "postprocess"} =>
            /\ nCollected[s] = round[s] + 1
            /\ rpCalls[s] = round[s]
       /\ pc[s] = "postprocess" => results[s] = Sorted(results[s])
       /\ "round_postprocess" \in faults[s] => nCollected[s] = round[s] + 1
       /\ faults[s] \cap {"pool", "generate_question", "submit", "unpack"} # {} =>
            /\ nCollected[s] = round[s]
            /\ rpCalls[s] = round[s]

\* One simulation ended after its round_postprocess raised in a round that is
\* counted, the other after a round was aborted during collection; the counter
\* holds the rounds of the first, its last one included, and only the
\* completed rounds of the second.
C16_Witness ==
  \E s, t \in Sims :
    /\ pc[s] = "returned"
    /\ "round_postprocess" \in faults[s]
    /\ round[s] >= 1
    /\ pc[t] = "returned"
    /\ "unpack" \in faults[t]
    /\ round[t] >= 1
    /\ progress = (round[s] + 1) + round[t]

\* C17: round_postprocess is called, the exception of a round is handled and
\* the get_memories snapshot and everything after it are executed only while
\* no answer task of that simulation is pending or running; this includes a
\* round aborted while its tasks were being submitted, whose results are
\* never handed to round_postprocess.
C17_Quiescent ==
  \A s \in Sims :
    /\ pc[s] \in {"sort", "update", "postprocess", "except", "snapshot"} =>
         InFlight(s) = {}
    /\ snapshots[s] > 0 => InFlight(s) = {}
    /\ Terminal(s) => InFlight(s) = {}
    /\ faults[s] \cap {"generate_question", "submit"} # {} =>
         /\ sub[s] < agents[s]
         /\ rpCalls[s] = round[s]
         /\ pc[s] # "abort" => results[s] = <<>>

\* generate_question raised for the second agent after the first agent's
\* answer had been submitted; the snapshot has been taken with no task left.
C17_Witness ==
  \E s \in Sims :
    /\ "generate_question" \in faults[s]
    /\ sub[s] = 1
    /\ snapshots[s] = 1
    /\ pc[s] = "acquire"
    /\ InFlight(s) = {}

\* C18: the lock is held only between its acquisition and the end of the with
\* statement, so a simulation whose update_record or get_memories raised does
\* not hold it once run_once is over; that run_once ends as a failed task
\* whose exception run() reports when it examines the future, and when run()
\* is over exp_postprocess has been invoked exactly once.
C18_LockReleasedOnFailure ==
  /\ \A s \in Sims :
       /\ lock = s =>
            pc[s] \in {"update_record", "writing", "release", "release_exc"}
       /\ "get_memories" \in faults[s] => pc[s] = "raised"
       /\ "update_record" \in faults[s] => pc[s] \in {"release_exc", "raised"}
       /\ s \in examined /\ pc[s] = "raised" =>
            \E k \in 1 .. Len(reports) :
              reports[k] = <<"A thread raised an exception", ExceptionOf(s)>>
  /\ opc = "done" => postCount = 1 /\ lock = NoOne
  /\ opc = "done" /\ runFault = "none" =>
       /\ examined = Sims
       /\ Len(reports) = Cardinality({s \in Sims : pc[s] = "raised"})

\* update_record of s raised between its two writes; t took the lock after s
\* and folded in; run() reported the failure of s and is over.
C18_Witness ==
  \E s, t \in Sims :
    /\ pc[s] = "raised"
    /\ ExceptionOf(s) = {"update_record"}
    /\ pc[t] = "returned"
    /\ \E k \in 1 .. Len(record) :
         /\ record[k] = <<s, "open">>
         /\ k + 2 <= Len(record)
         /\ record[k + 1] = <<t, "open">>
         /\ record[k + 2] = <<t, "close">>
    /\ reports = << <<"A thread raised an exception", {"update_record"}>> >>
    /\ opc = "done"
    /\ postCount = 1

\* C19: in a round with index >= 4 an agent's answer has started only if the
\* answers of all agents with a smaller index have returned or raised, so at
\* most one answer runs and the answers finish in submission order; the
\* submission loop itself never waits for an answer: while an agent is left to
\* be asked, the next question can be generated and its answer submitted.
C19_SerialInIndexOrder ==
  \A s \in Sims :
    /\ round[s] >= ParallelRounds =>
         /\ Cardinality(Running(s)) <= 1
         /\ \A i, j \in AgentIds :
              i < j /\ task[s][j] \in {"running", "ok", "err"}
                => task[s][i] \in {"ok", "err"}
    /\ pc[s] = "submit" /\ sub[s] < agents[s] => ENABLED AskAndSubmit(s)

\* In a serial round the second agent's question has been generated and its
\* answer submitted while the first agent's answer is still running.
C19_Witness ==
  \E s \in Sims :
    /\ round[s] >= ParallelRounds
    /\ sub[s] = 2
    /\ task[s][0] = "running"
    /\ task[s][1] = "queued"

\* C20: a simulation whose generate_agents returned an empty list fails to
\* construct the pool of round 0 and goes no further in its rounds: no task is
\* submitted, round_postprocess is never invoked and no round of it is
\* counted; the error is caught inside run_once, which still calls
\* update_record exactly once, with a snapshot of no agent, and fails only if
\* update_record raises.
C20_ZeroAgents ==
  /\ \A s \in Sims :
       /\ "pool" \in faults[s] <=>
            /\ agents[s] = 0
            /\ "generate_agents" \notin faults[s]
            /\ pc[s] \notin {"unsubmitted", "generate_agents", "loop"}
       /\ "pool" \in faults[s] =>
            /\ round[s] = 0
            /\ sub[s] = 0
            /\ \A i \in AgentIds : task[s][i] = "none"
            /\ rpCalls[s] = 0
            /\ nCollected[s] = 0
            /\ faults[s] \subseteq {"pool", "update_record"}
            /\ pc[s] \in AfterRounds \ {"abort"}
            /\ pc[s] \in {"except", "snapshot"} => snapshots[s] = 0
            /\ Terminal(s) => snapshots[s] = 1 /\ updates[s] = 1
            /\ pc[s] = "returned" <=> Terminal(s) /\ "update_record" \notin faults[s]
            /\ pc[s] = "returned" => Entries(s) # {}
  /\ (\A s \in Sims : agents[s] = 0) => progress = 0

\* A simulation without agents has returned after the pool of round 0 could
\* not be constructed: update_record ran once, nothing was counted for it,
\* while the other simulation has counted all its rounds.
C20_Witness ==
  \E s, t \in Sims :
    /\ "pool" \in faults[s]
    /\ pc[s] = "returned"
    /\ updates[s] = 1
    /\ Entries(s) # {}
    /\ pc[t] = "returned"
    /\ round[t] = NumRounds
    /\ progress = NumRounds

====
